---- MODULE Spec2Model ----
(***************************************************************************)
(* Hyperliquid analytics: the backend's block-record pipeline              *)
(* (src/backend/server.js) and the dashboard's price window                *)
(* (src/frontend/src/App.tsx).                                             *)
(*                                                                         *)
(* JavaScript values are tagged records ([k |-> "number", n |-> 3], ...),  *)
(* a completed call is a completion record (a return or a throw), and an   *)
(* arbitrary-precision integer is a sequence of decimal digits, so that    *)
(* 2^64 and 2^128 are values of the model.                                 *)
(***************************************************************************)
EXTENDS Integers, Sequences, FiniteSets, TLC

VARIABLES
    db,                \* the rows of table "hype-debug"
    res,               \* the response of the request served last
    statsReq,          \* GET /api/stats between its two queries
    oracle,            \* what the spot-price precompile answers to the dashboard's requests
    hypeInFlight,      \* the dashboard's GET /api/hype-token-data requests in flight
    hypeData,          \* App state hypeData
    hypePriceHistory,  \* App state hypePriceHistory
    samples,           \* history variable: every sample appended, in order
    rowData,           \* the row.data parseBlockData is called with
    parsedBlocks,      \* what that call completed with
    recentBlocks,      \* App state recentBlocks
    stats,             \* App state stats
    currentBlock,      \* App state currentBlock
    streamStatus,      \* App state streamStatus
    error,             \* App state error
    pending,           \* the requests in flight of each of the dashboard's fetches
    fired,             \* the times the callback of each interval has run
    clock,             \* the time since the dashboard was mounted, in clock steps
    blockSearch,       \* App state blockSearch
    searchResult,      \* App state searchResult
    loading,           \* App state loading
    searching,         \* the searches waiting for GET /api/blocks/:blockNumber
    alerted            \* the message of the last alert()

vars == <<db, res, statsReq, oracle, hypeInFlight, hypeData, hypePriceHistory,
          samples, rowData, parsedBlocks, recentBlocks, stats, currentBlock,
          streamStatus, error, pending, fired, clock, blockSearch, searchResult,
          loading, searching, alerted>>

backendVars == <<db, res, statsReq>>
priceVars == <<oracle, hypeInFlight, hypeData, hypePriceHistory, samples>>
normVars == <<rowData, parsedBlocks>>
appVars == <<recentBlocks, stats, currentBlock, streamStatus, error>>
pollVars == <<appVars, pending, fired, clock>>
searchVars == <<blockSearch, searchResult, loading, searching, alerted>>

---------------------------------------------------------------------------
(* Bounds of the model.                                                    *)

MaxRows == 2           \* rows the stream has written to the table
MaxInFlight == 2       \* price requests in flight at once
MaxSamples == 32       \* samples appended in one behaviour

---------------------------------------------------------------------------
(* JavaScript values and completions.                                      *)

Undefined == [k |-> "undefined"]
Null == [k |-> "null"]
Num(n) == [k |-> "number", n |-> n]
\* A string holding decimal digits (most significant first), as gasUsed does.
DecStr(ds) == [k |-> "string", digits |-> ds]
\* A string holding a document: doc.wf says whether it is well-formed JSON,
\* doc.val is the value it spells.
Text(doc) == [k |-> "string", doc |-> doc]
Arr(items) == [k |-> "array", items |-> items]
Obj(f) == [k |-> "object", f |-> f]

Return(v) == [ok |-> TRUE, val |-> v]
Throw(e) == [ok |-> FALSE, err |-> e]

\* typeof v === 'string'
IsString(v) == v.k = "string"

\* Array.isArray(v)
IsArray(v) == v.k = "array"

\* ToBoolean(v)
Truthy(v) ==
    CASE v.k \in {"undefined", "null"} -> FALSE
      [] v.k = "number" -> v.n # 0
      [] v.k = "string" -> IF "digits" \in DOMAIN v THEN v.digits # <<>>
                           ELSE IF "leading" \in DOMAIN v
                                THEN v.leading # <<>> \/ v.rest # ""
                                ELSE TRUE
      [] OTHER -> TRUE

\* v[name]: a TypeError on null and undefined, undefined for an absent property.
Get(v, name) ==
    CASE v.k \in {"undefined", "null"} -> Throw("TypeError")
      [] v.k = "object" ->
            IF name \in DOMAIN v.f THEN Return(v.f[name]) ELSE Return(Undefined)
      [] OTHER -> Return(Undefined)

\* JSON.parse(s)
JsonParse(s) ==
    IF "doc" \in DOMAIN s /\ s.doc.wf THEN Return(s.doc.val) ELSE Throw("SyntaxError")

---------------------------------------------------------------------------
(* parseBlockData                                                          *)

\* The body of the try block: the completion it ends with.
parseBlockDataTry(dataString) ==
    LET parsed == IF IsString(dataString) THEN JsonParse(dataString) ELSE Return(dataString)
    IN  IF ~parsed.ok THEN parsed
        ELSE
        LET data == parsed.val
            blocks == Get(data, "blocks")
        IN  IF ~blocks.ok THEN blocks
            ELSE IF Truthy(blocks.val) /\ IsArray(blocks.val) THEN Return(blocks.val.items)
            ELSE IF IsArray(data) THEN Return(data.items)
            ELSE IF Get(data, "blockNumber").val # Undefined THEN Return(<<data>>)
            ELSE Return(<<>>)

\* Without the catch: an exception of the body reaches the caller.
parseBlockDataNoCatch(dataString) == parseBlockDataTry(dataString)

\* The single-record test first.
parseBlockDataRecordFirst(dataString) ==
    LET parsed == IF IsString(dataString) THEN JsonParse(dataString) ELSE Return(dataString)
    IN  IF ~parsed.ok \/ ~Get(parsed.val, "blocks").ok THEN Return(<<>>)
        ELSE
        LET data == parsed.val
            blocks == Get(data, "blocks").val
        IN  IF Get(data, "blockNumber").val # Undefined THEN Return(<<data>>)
            ELSE IF Truthy(blocks) /\ IsArray(blocks) THEN Return(blocks.items)
            ELSE IF IsArray(data) THEN Return(data.items)
            ELSE Return(<<>>)

\* try { ... } catch (error) { return []; }
parseBlockData(dataString) ==
    LET body == parseBlockDataTry(dataString)
    IN  IF body.ok THEN body ELSE Return(<<>>)

---------------------------------------------------------------------------
(* BigInt: a natural number as its decimal digits, least significant       *)
(* first, without leading zeros (zero is the empty sequence).              *)

Reverse(s) == [i \in 1..Len(s) |-> s[Len(s) - i + 1]]

RECURSIVE StripZeros(_)
StripZeros(ds) ==
    IF ds # <<>> /\ Head(ds) = 0 THEN StripZeros(Tail(ds)) ELSE ds

RECURSIVE NatDigits(_)
NatDigits(n) == IF n = 0 THEN <<>> ELSE <<n % 10>> \o NatDigits(n \div 10)

\* BigInt(v) of a non-negative integer number or of a string.
BigInt(v) ==
    CASE v.k = "number" -> Return(NatDigits(v.n))
      [] v.k = "string" /\ "digits" \in DOMAIN v ->
            IF \A i \in DOMAIN v.digits : v.digits[i] \in 0..9
            THEN Return(Reverse(StripZeros(v.digits)))
            ELSE Throw("SyntaxError")
      [] v.k = "string" -> Throw("SyntaxError")
      [] OTHER -> Throw("TypeError")

RECURSIVE BigAddCarry(_, _, _)
BigAddCarry(a, b, c) ==
    IF a = <<>> /\ b = <<>> THEN (IF c = 0 THEN <<>> ELSE <<c>>)
    ELSE LET x == IF a = <<>> THEN 0 ELSE Head(a)
             y == IF b = <<>> THEN 0 ELSE Head(b)
             ta == IF a = <<>> THEN <<>> ELSE Tail(a)
             tb == IF b = <<>> THEN <<>> ELSE Tail(b)
         IN  <<(x + y + c) % 10>> \o BigAddCarry(ta, tb, (x + y + c) \div 10)

\* The sum as an IEEE double keeps it: 17 significant decimal digits at most
\* (the digits below them are lost).
RECURSIVE ZeroLow(_, _)
ZeroLow(a, n) == IF n = 0 \/ a = <<>> THEN a ELSE <<0>> \o ZeroLow(Tail(a), n - 1)

BigAddAsDouble(a, b) ==
    LET s == BigAddCarry(a, b, 0)
    IN  IF Len(s) > 17 THEN ZeroLow(s, Len(s) - 17) ELSE s

\* a + b on BigInts
BigAdd(a, b) == BigAddCarry(a, b, 0)

\* a.toString()
BigToString(a) == DecStr(IF a = <<>> THEN <<0>> ELSE Reverse(a))

---------------------------------------------------------------------------
(* GET /api/blocks/recent                                                  *)

RecentRowLimit == 10   \* LIMIT 10 of the query
RecentLimit == 20      \* .slice(0, 20)

Min(a, b) == IF a <= b THEN a ELSE b

\* for (const row of rows) allBlocks.push(...parseBlockData(row.data))
RECURSIVE allBlocks(_)
allBlocks(rows) ==
    IF rows = <<>> THEN Return(<<>>)
    ELSE LET blocks == parseBlockData(Head(rows).data)
             rest == allBlocks(Tail(rows))
         IN  IF ~blocks.ok THEN blocks
             ELSE IF ~rest.ok THEN rest
             ELSE Return(blocks.val \o rest.val)

\* b.blockNumber, a number in every block record
blockNumberOf(b) == Get(b, "blockNumber").val.n

\* A sort that is not stable: of two elements of the same blockNumber the later
\* one comes first.
sortedPositionLaterFirst(keys, i) ==
    Cardinality({j \in 1..Len(keys) :
                    keys[j] > keys[i] \/ (keys[j] = keys[i] /\ j > i)}) + 1

\* Where list.sort((a, b) => b.blockNumber - a.blockNumber) puts the element at
\* index i of a list with the block numbers keys: the sort is stable, so after
\* the elements of a greater blockNumber and after the earlier elements of the
\* same blockNumber.
sortedPosition(keys, i) ==
    Cardinality({j \in 1..Len(keys) :
                    keys[j] > keys[i] \/ (keys[j] = keys[i] /\ j < i)}) + 1

\* Ascending instead of descending.
sortedPositionAsc(keys, i) ==
    Cardinality({j \in 1..Len(keys) :
                    keys[j] < keys[i] \/ (keys[j] = keys[i] /\ j < i)}) + 1

sortByBlockNumberAsc(list) ==
    LET keys == [i \in 1..Len(list) |-> blockNumberOf(list[i])]
        position == [i \in 1..Len(list) |-> sortedPositionAsc(keys, i)]
    IN  [p \in 1..Len(list) |-> list[CHOOSE i \in 1..Len(list) : position[i] = p]]

\* list.sort((a, b) => b.blockNumber - a.blockNumber)
sortByBlockNumber(list) ==
    LET keys == [i \in 1..Len(list) |-> blockNumberOf(list[i])]
        position == [i \in 1..Len(list) |-> sortedPosition(keys, i)]
    IN  [p \in 1..Len(list) |-> list[CHOOSE i \in 1..Len(list) : position[i] = p]]

\* list.slice(0, n)
slice0(list, n) == SubSeq(list, 1, Min(n, Len(list)))

\* Lines 122-133 on the rows of the query, with the length of the slice named.
mergeRecent(rows, limit) ==
    LET all == allBlocks(rows)
    IN  IF ~all.ok THEN all
        ELSE Return(slice0(sortByBlockNumber(all.val), limit))

\* The handler on what pool.query completed with.
recentHandler(query) ==
    IF ~query.ok
    THEN [status |-> 500, body |-> "Database error"]
    ELSE LET sortedBlocks == mergeRecent(query.val, RecentLimit)
         IN  IF ~sortedBlocks.ok
             THEN [status |-> 500, body |-> "Database error"]
             ELSE [status |-> 200, body |-> sortedBlocks.val]

---------------------------------------------------------------------------
(* GET /api/stats                                                          *)

NaN == [k |-> "number", nan |-> TRUE]

\* parseInt(v) of a count or a block number the store returns, NaN of NULL; of
\* a text, the number its leading digits spell, NaN when it has none.
parseInt(v) ==
    IF v.k = "number" THEN v
    ELSE IF v.k = "string" /\ "leading" \in DOMAIN v /\ v.leading # <<>>
         THEN Num(v.leading[1])
         ELSE NaN

SetMin(S) == CHOOSE x \in S : \A y \in S : x <= y
SetMax(S) == CHOOSE x \in S : \A y \in S : x >= y

\* The count and the bounds taken of the rows that hold records only.
rangeMetadataOfRecords(rows) ==
    LET held == {r \in rows : parseBlockData(r.data).val # <<>>}
    IN  [total_records |-> Num(Cardinality(held)),
         first_block |-> IF held = {} THEN Null
                         ELSE Num(SetMin({r.from_block_number : r \in held})),
         last_block |-> IF held = {} THEN Null
                        ELSE Num(SetMax({r.to_block_number : r \in held}))]

\* SELECT COUNT(*), MIN(from_block_number), MAX(to_block_number)
rangeMetadata(rows) ==
    [total_records |-> Num(Cardinality(rows)),
     first_block |-> IF rows = {} THEN Null
                     ELSE Num(SetMin({r.from_block_number : r \in rows})),
     last_block |-> IF rows = {} THEN Null
                    ELSE Num(SetMax({r.to_block_number : r \in rows}))]

\* v || 0
OrZero(v) == IF Truthy(v) THEN v ELSE Num(0)

\* v > 0
GreaterThanZero(v) == v.k = "number" /\ "n" \in DOMAIN v /\ v.n > 0

\* The filter dropped: every record is folded.
isActivityBlockAlways(block) == Return(TRUE)

\* block.hyperEVMTxns > 0
isActivityBlock(block) ==
    LET txns == Get(block, "hyperEVMTxns")
    IN  IF ~txns.ok THEN txns ELSE Return(GreaterThanZero(txns.val))

zeroTotals ==
    [totalTransactions |-> 0, totalCrossLayerCalls |-> 0, totalGasUsed |-> <<>>,
     totalHyperCoreActions |-> 0, processedBlocks |-> 0]

\* The body of the inner loop for one block.
foldBlock(acc, block) ==
    LET active == isActivityBlock(block)
    IN  IF ~active.ok THEN active
        ELSE IF ~active.val THEN Return(acc)
        ELSE LET gas == BigInt(OrZero(Get(block, "gasUsed").val))
             IN  IF ~gas.ok THEN gas
                 ELSE Return(
                    [processedBlocks |-> acc.processedBlocks + 1,
                     totalTransactions |->
                        acc.totalTransactions + OrZero(Get(block, "hyperEVMTxns").val).n,
                     totalCrossLayerCalls |->
                        acc.totalCrossLayerCalls + OrZero(Get(block, "crossLayerCalls").val).n,
                     totalHyperCoreActions |->
                        acc.totalHyperCoreActions + OrZero(Get(block, "hyperCoreActions").val).n,
                     totalGasUsed |-> BigAdd(acc.totalGasUsed, gas.val)])

\* The inner loop over blocks[lo..hi]: its first half, then its second half
\* from the totals the first half left, unless the first half threw.
RECURSIVE foldBlocksFrom(_, _, _, _)
foldBlocksFrom(acc, blocks, lo, hi) ==
    IF lo > hi THEN Return(acc)
    ELSE IF lo = hi THEN foldBlock(acc, blocks[lo])
    ELSE LET first == foldBlocksFrom(acc, blocks, lo, (lo + hi) \div 2)
         IN  IF ~first.ok THEN first
             ELSE foldBlocksFrom(first.val, blocks, (lo + hi) \div 2 + 1, hi)

\* for (const block of blocks)
foldBlocks(acc, blocks) == foldBlocksFrom(acc, blocks, 1, Len(blocks))

\* for (const row of blocksResult.rows) for (const block of parseBlockData(row.data))
RECURSIVE foldRows(_, _)
foldRows(acc, rows) ==
    IF rows = <<>> THEN Return(acc)
    ELSE LET blocks == parseBlockData(Head(rows).data)
         IN  IF ~blocks.ok THEN blocks
             ELSE LET next == foldBlocks(acc, blocks.val)
                  IN  IF ~next.ok THEN next ELSE foldRows(next.val, Tail(rows))

\* x.toFixed(2) of the percentage calls / txns * 100: the string of the
\* hundredths, rounded to nearest.
FixedStr(h) == [k |-> "string", hundredths |-> h]
toFixed2Percent(calls, txns) == FixedStr((2 * calls * 10000 + txns) \div (2 * txns))

\* No test of the denominator.
crossLayerPercentageUnguarded(calls, txns) ==
    IF txns = 0 THEN NaN ELSE toFixed2Percent(calls, txns)

\* totalTransactions > 0 ? ((calls / txns) * 100).toFixed(2) : '0'
crossLayerPercentage(calls, txns) ==
    IF txns > 0 THEN toFixed2Percent(calls, txns) ELSE DecStr(<<0>>)

\* The handler on the row of the first query and on what the second completed with.
statsHandler(statsRow, blocksResult) ==
    IF ~blocksResult.ok
    THEN [status |-> 500, body |-> "Stats error"]
    ELSE LET totals == foldRows(zeroTotals, blocksResult.val)
         IN  IF ~totals.ok
             THEN [status |-> 500, body |-> "Stats error"]
             ELSE [status |-> 200,
                   body |->
                    [totalRecords |-> parseInt(statsRow.total_records),
                     firstBlock |-> parseInt(statsRow.first_block),
                     lastBlock |-> parseInt(statsRow.last_block),
                     totalTransactions |-> totals.val.totalTransactions,
                     totalCrossLayerCalls |-> totals.val.totalCrossLayerCalls,
                     totalHyperCoreActions |-> totals.val.totalHyperCoreActions,
                     totalGasUsed |-> BigToString(totals.val.totalGasUsed),
                     processedBlocks |-> totals.val.processedBlocks,
                     crossLayerPercentage |->
                        crossLayerPercentage(totals.val.totalCrossLayerCalls,
                                             totals.val.totalTransactions)]]

---------------------------------------------------------------------------
(* getHypePrice and GET /api/hype-token-data                               *)

\* A JavaScript number with a fraction, as its millionths (a natural number in
\* the digits of a BigInt): 48.0 is the millionths 48000000.
Price(millionths) == [k |-> "number", millionths |-> millionths]

\* What provider.call resolves with: the 32 bytes of a uint256, or no bytes.
Uint256Hex(ds) == [k |-> "string", uint256 |-> ds]
EmptyHex == [k |-> "string", hex |-> "0x"]

\* a < b on BigInts
RECURSIVE BigLessMs(_, _)
BigLessMs(a, b) ==
    IF a = <<>> THEN FALSE
    ELSE IF Head(a) # Head(b) THEN Head(a) < Head(b)
    ELSE BigLessMs(Tail(a), Tail(b))

BigLess(a, b) ==
    IF Len(a) # Len(b) THEN Len(a) < Len(b) ELSE BigLessMs(Reverse(a), Reverse(b))

RECURSIVE MulDigit(_, _, _)
MulDigit(a, d, c) ==
    IF a = <<>> THEN NatDigits(c)
    ELSE <<(Head(a) * d + c) % 10>> \o MulDigit(Tail(a), d, (Head(a) * d + c) \div 10)

\* a * b on BigInts
RECURSIVE BigMul(_, _)
BigMul(a, b) ==
    IF a = <<>> \/ b = <<>> THEN <<>>
    ELSE LET low == IF Head(b) = 0 THEN <<>> ELSE MulDigit(a, Head(b), 0)
             high == BigMul(a, Tail(b))
         IN  IF high = <<>> THEN low ELSE BigAdd(low, <<0>> \o high)

\* 2^53: toNumber() throws from here on
TwoTo53 == Reverse(<<9,0,0,7,1,9,9,2,5,4,7,4,0,9,9,2>>)

\* ethers.BigNumber.from(result)
BigNumberFrom(result) ==
    IF "uint256" \in DOMAIN result
    THEN Return(Reverse(StripZeros(result.uint256)))
    ELSE Throw("INVALID_ARGUMENT")

\* priceRaw.toNumber()
toNumber(priceRaw) ==
    IF BigLess(priceRaw, TwoTo53) THEN Return(priceRaw) ELSE Throw("NUMERIC_FAULT")

FallbackMillionths == 48000000   \* return 48.0
TotalSupply == 1000000000
CirculatingSupply == 333928180

\* The body of the try block on what provider.call completed with.
getHypePriceTry(call) ==
    IF ~call.ok THEN call
    ELSE LET priceRaw == BigNumberFrom(call.val)
         IN  IF ~priceRaw.ok THEN priceRaw
             ELSE LET n == toNumber(priceRaw.val)
                  IN  IF ~n.ok THEN n
                      \* n / 1000000
                      ELSE Return(Price(n.val))

\* The catch rethrows instead of falling back.
getHypePriceRethrow(call) == getHypePriceTry(call)

\* try { ... } catch (error) { return 48.0; }
getHypePrice(call) ==
    LET body == getHypePriceTry(call)
    IN  IF body.ok THEN body ELSE Return(Price(NatDigits(FallbackMillionths)))

\* a * b of a whole number and a number with a fraction
Times(a, b) == Price(BigMul(b.millionths, NatDigits(a)))

hypeTokenDataHandler(call) ==
    LET hypePrice == getHypePrice(call)
    IN  IF ~hypePrice.ok
        THEN [status |-> 500, body |-> "Failed to fetch HYPE data"]
        ELSE [status |-> 200,
              body |-> [hypePrice |-> hypePrice.val,
                        totalSupply |-> TotalSupply,
                        circulatingSupply |-> CirculatingSupply,
                        marketCap |-> Times(CirculatingSupply, hypePrice.val)]]

---------------------------------------------------------------------------
(* GET /api/blocks/:blockNumber                                            *)

\* A text of the route: the number its leading digits spell, if it has any,
\* and the characters after them.
ParamText(leading, rest) == [k |-> "string", leading |-> leading, rest |-> rest]

\* a === b
StrictEquals(a, b) ==
    /\ a.k = b.k
    /\ ~("nan" \in DOMAIN a) /\ ~("nan" \in DOMAIN b)
    /\ a = b

\* blocks.find(b => b.blockNumber === blockNum)
find(blocks, blockNum) ==
    LET hits == {i \in 1..Len(blocks) :
                    StrictEquals(Get(blocks[i], "blockNumber").val, blockNum)}
    IN  IF hits = {} THEN Undefined ELSE blocks[SetMin(hits)]

\* A block as provider.getBlock gives it: transactions by their number,
\* gasUsed a BigNumber.
ChainBlock(number, timestamp, transactions, gasUsed) ==
    [k |-> "object", number |-> number, timestamp |-> timestamp,
     transactions |-> transactions, gasUsed |-> gasUsed]

\* The natural number of a BigInt that a double holds exactly.
RECURSIVE NatOf(_)
NatOf(ds) == IF ds = <<>> THEN 0 ELSE Head(ds) + 10 * NatOf(Tail(ds))

\* The record made of a block read from the chain.
chainRecord(b) ==
    Obj([blockNumber |-> Num(b.number),
         timestamp |-> Num(b.timestamp),
         hyperCoreActions |-> Num(0),
         hyperEVMTxns |-> Num(b.transactions),
         crossLayerCalls |-> Num(0),
         gasUsed |-> BigToString(b.gasUsed),
         uniqueUsers |-> Arr(<<>>),
         metrics |->
            Obj([avgGasPerTx |->
                    IF b.transactions > 0
                    THEN Num(NatOf(b.gasUsed) \div b.transactions) ELSE Num(0),
                 crossLayerRatio |-> DecStr(<<0>>),
                 uniqueUserCount |-> Num(0)])])

\* The handler on the route parameter, on what pool.query completed with and
\* on what provider.getBlock completes with when it is called; calls names the
\* collaborators the handler called.
blockHandler(blockNumber, result, blockchainBlock) ==
    LET blockNum == parseInt(blockNumber)
    IN  IF ~result.ok
        THEN [status |-> 500, body |-> "Database error", calls |-> <<"pool.query">>]
        ELSE IF Len(result.val) > 0
        THEN LET blocks == parseBlockData(result.val[1].data)
             IN  IF ~blocks.ok
                 THEN [status |-> 500, body |-> "Database error",
                       calls |-> <<"pool.query">>]
                 ELSE IF Truthy(find(blocks.val, blockNum))
                 THEN [status |-> 200, body |-> find(blocks.val, blockNum),
                       calls |-> <<"pool.query">>]
                 ELSE IF ~blockchainBlock.ok
                 THEN [status |-> 404, body |-> "Block not found",
                       calls |-> <<"pool.query", "provider.getBlock">>]
                 ELSE IF Truthy(blockchainBlock.val)
                 THEN [status |-> 200, body |-> chainRecord(blockchainBlock.val),
                       calls |-> <<"pool.query", "provider.getBlock">>]
                 ELSE [status |-> 404, body |-> "Block not found",
                       calls |-> <<"pool.query", "provider.getBlock">>]
        ELSE [status |-> 404, body |-> "Block not found in database",
              calls |-> <<"pool.query">>]

---------------------------------------------------------------------------
(* The payloads the stream writes: block records as the data model types   *)
(* them (counts are numbers, gasUsed a decimal string, any of them         *)
(* possibly absent), in every shape parseBlockData tells apart.            *)

Field(name, v) == IF v = Undefined THEN <<>> ELSE (name :> v)

Block(blockNumber, txns, calls, actions, gas) ==
    Obj(("blockNumber" :> Num(blockNumber)) @@ Field("hyperEVMTxns", txns)
        @@ Field("crossLayerCalls", calls) @@ Field("hyperCoreActions", actions)
        @@ Field("gasUsed", gas))

Gas21000 == DecStr(<<2,1,0,0,0>>)
GasTwoTo64 == DecStr(<<1,8,4,4,6,7,4,4,0,7,3,7,0,9,5,5,1,6,1,6>>)
GasTwoTo128 ==
    DecStr(<<3,4,0,2,8,2,3,6,6,9,2,0,9,3,8,4,6,3,4,6,3,3,7,4,6,0,7,4,3,1,7,6,8,2,1,1,4,5,6>>)

B100 == Block(100, Num(2), Num(1), Num(3), GasTwoTo64)
B101 == Block(101, Num(0), Num(5), Num(7), Gas21000)       \* no transactions
B102 == Block(102, Undefined, Num(4), Num(4), Gas21000)    \* no transaction count
B105a == Block(105, Num(1), Undefined, Undefined, Undefined)
B105b == Block(105, Num(3), Num(2), Num(0), GasTwoTo64)
B110 == Block(110, Num(1), Num(1), Num(1), GasTwoTo128)

\* 21 records, more than one listing holds, not in order
ManyBlocks == [i \in 1..21 |-> Block(200 + ((i * 8) % 21), Num(1), Num(0), Num(1), Gas21000)]

\* The payloads of the rows in the table.
StoredPayloads ==
    {Arr(<<B100, B101, B105a>>), Arr(<<B105b, B110>>), Arr(ManyBlocks),
     Obj("blocks" :> Arr(<<B100, B102>>)),
     Obj(("blocks" :> Num(5)) @@ ("blockNumber" :> Num(103))
         @@ ("hyperEVMTxns" :> Num(4)) @@ ("gasUsed" :> GasTwoTo64)),
     Text([wf |-> FALSE])}

\* The block ranges a row declares.
Ranges == {<<100, 109>>, <<105, 114>>}

\* A payload of none of the shapes parseBlockData knows.
OtherPayload == Obj("network" :> Num(1))

Rows ==
    {[from_block_number |-> rg[1], to_block_number |-> rg[2], data |-> p] :
        rg \in Ranges, p \in StoredPayloads}
    \cup {[from_block_number |-> 100, to_block_number |-> 109, data |-> OtherPayload]}

---------------------------------------------------------------------------
(* The store.                                                              *)

\* The rows in an order ORDER BY to_block_number DESC allows (rows with the
\* same to_block_number come in any order), cut by LIMIT.
orderedByToDesc(rows, limit) ==
    LET n == Cardinality(rows)
    IN  {slice0(s, limit) :
            s \in {f \in [1..n -> rows] :
                    /\ \A i, j \in 1..n : i # j => f[i] # f[j]
                    /\ \A i \in 1..(n - 1) :
                        f[i].to_block_number >= f[i + 1].to_block_number}}

\* What pool.query completes with: the rows, or the store's failure.
queryOrdered(rows, limit) ==
    {Throw("ECONNREFUSED")} \cup {Return(q) : q \in orderedByToDesc(rows, limit)}

\* What provider.call completes with.
OracleAnswers ==
    {Throw("NETWORK_ERROR"), Throw("CALL_EXCEPTION"), Return(EmptyHex),
     Return(Uint256Hex(<<5,0,1,2,3,4,5,6>>)),
     Return(Uint256Hex(<<9,0,0,7,1,9,9,2,5,4,7,4,0,9,9,1>>)),
     Return(Uint256Hex(<<9,0,0,7,1,9,9,2,5,4,7,4,0,9,9,2>>)),
     Return(Uint256Hex(GasTwoTo64.digits))}

\* The rows whose range holds the block number.
covering(rows, n) == {r \in rows : r.from_block_number <= n /\ r.to_block_number >= n}

\* What the query WHERE from_block_number <= $1 AND to_block_number >= $1
\* LIMIT 1 completes with: one of the rows the condition takes, whichever, or
\* no row, or the store's failure. With NaN for $1 the store refuses the
\* value or finds no row, by the type of the columns.
blockRangeQuery(rows, blockNum) ==
    IF "nan" \in DOMAIN blockNum
    THEN {Throw("ECONNREFUSED"), Throw("22P02"), Return(<<>>)}
    ELSE {Throw("ECONNREFUSED")}
         \cup {Return(<<r>>) : r \in covering(rows, blockNum.n)}
         \cup (IF covering(rows, blockNum.n) = {} THEN {Return(<<>>)} ELSE {})

\* What provider.getBlock(blockNum) completes with: the block, null when the
\* chain has no such block, or the failure of the call.
getBlockAnswers(blockNum) ==
    IF "nan" \in DOMAIN blockNum
    THEN {Throw("INVALID_ARGUMENT")}
    ELSE {Throw("SERVER_ERROR"), Return(Null),
          Return(ChainBlock(blockNum.n, 1700000000 + blockNum.n, 2, <<1,0,0,2,4>>))}

\* The route parameters of the lookups.
RouteParams ==
    {ParamText(<<105>>, ""), ParamText(<<107>>, ""), ParamText(<<120>>, ""),
     ParamText(<<>>, "abc"), ParamText(<<105>>, "abc")}

\* The dashboard before its effect has run: the useState initial values, no
\* request sent, no interval set.
Fetches ==
    {"checkBackendHealth", "fetchStreamData", "fetchStats", "fetchHypeData",
     "fetchCurrentBlock"}
Intervals == {"dataInterval", "hypeInterval", "healthInterval"}

MaxSearches == 2       \* searches waiting for the backend at once

\* No search under way: the useState initial values of the block explorer.
NoRequest == [k |-> "none"]
NoSearch ==
    /\ blockSearch = ParamText(<<>>, "")
    /\ searchResult = Null
    /\ loading = FALSE
    /\ searching = [i \in 1..MaxSearches |-> NoRequest]
    /\ alerted = Null

NotMounted ==
    /\ recentBlocks = <<>>
    /\ stats = Null
    /\ currentBlock = Null
    /\ streamStatus = "disconnected"
    /\ error = Null
    /\ pending = [f \in Fetches |-> 0]
    /\ fired = [t \in Intervals |-> 0]
    /\ clock = 0

NoResponse == [op |-> "none"]
NotCalled == [op |-> "none"]
Idle == [pc |-> "idle"]

\* A response with what the request read: rows, the rows of the data query in
\* the order it returned them; counted, the rows the metadata query saw.
Response(op, r, completed, rows, counted) ==
    [op |-> op, status |-> r.status, body |-> r.body, completed |-> completed,
     rows |-> rows, counted |-> counted]

Init ==
    /\ db = {}
    /\ res = NoResponse
    /\ statsReq = Idle
    /\ oracle = Throw("NETWORK_ERROR")
    /\ hypeInFlight = <<>>
    /\ hypeData = Null
    /\ hypePriceHistory = <<>>
    /\ samples = <<>>
    /\ rowData = Null
    /\ parsedBlocks = NotCalled
    /\ NotMounted
    /\ NoSearch

\* The stream writes a row.
StreamInsert ==
    /\ res = NoResponse
    /\ Cardinality(db) < MaxRows
    /\ \E row \in Rows \ db : db' = db \cup {row}
    /\ UNCHANGED <<searchVars, res, statsReq, priceVars, normVars, pollVars>>

\* The response is sent.
Deliver ==
    /\ res # NoResponse
    /\ res' = NoResponse
    /\ UNCHANGED <<searchVars, db, statsReq, priceVars, normVars, pollVars>>

GetRecentBlocks ==
    /\ res = NoResponse /\ statsReq = Idle
    /\ \E query \in queryOrdered(db, RecentRowLimit) :
        res' = Response("recent", recentHandler(query), query.ok,
                        IF query.ok THEN query.val ELSE <<>>, {})
    /\ UNCHANGED <<searchVars, db, statsReq, priceVars, normVars, pollVars>>

\* GET /api/stats up to the end of its first query.
GetStatsCount ==
    /\ res = NoResponse /\ statsReq = Idle
    /\ \/ /\ statsReq' = [pc |-> "blocks", stats |-> rangeMetadata(db), counted |-> db]
          /\ res' = res
       \/ /\ res' = Response("stats", [status |-> 500, body |-> "Stats error"],
                             FALSE, <<>>, {})
          /\ statsReq' = statsReq
    /\ UNCHANGED <<searchVars, db, priceVars, normVars, pollVars>>

\* GET /api/stats from its second query on.
GetStatsFold ==
    /\ res = NoResponse /\ statsReq # Idle
    /\ \E blocksResult \in queryOrdered(db, Cardinality(db)) :
        res' = Response("stats", statsHandler(statsReq.stats, blocksResult),
                        blocksResult.ok,
                        IF blocksResult.ok THEN blocksResult.val ELSE <<>>,
                        statsReq.counted)
    /\ statsReq' = Idle
    /\ UNCHANGED <<searchVars, db, priceVars, normVars, pollVars>>

\* GET /api/blocks/:blockNumber; chain is what provider.getBlock completes
\* with for this block number, called or not, and stored the rows in the table.
GetBlock ==
    /\ res = NoResponse /\ statsReq = Idle
    /\ \E blockNumber \in RouteParams :
        \E result \in blockRangeQuery(db, parseInt(blockNumber)),
           blockchainBlock \in getBlockAnswers(parseInt(blockNumber)) :
            res' = [op |-> "block", blockNumber |-> blockNumber, result |-> result,
                    chain |-> blockchainBlock, stored |-> db]
                   @@ blockHandler(blockNumber, result, blockchainBlock)
    /\ UNCHANGED <<searchVars, db, statsReq, priceVars, normVars, pollVars>>

GetHypeTokenData ==
    /\ res = NoResponse /\ statsReq = Idle
    /\ \E call \in OracleAnswers :
        res' = [op |-> "hype", call |-> call] @@ hypeTokenDataHandler(call)
    /\ UNCHANGED <<searchVars, db, statsReq, priceVars, normVars, pollVars>>

Next ==
    \/ StreamInsert
    \/ Deliver
    \/ GetRecentBlocks
    \/ GetStatsCount
    \/ GetStatsFold
    \/ GetBlock
    \/ GetHypeTokenData

Spec == Init /\ [][Next]_vars

---------------------------------------------------------------------------
(* The dashboard's price window: fetchHypeData on its timer.               *)

HistoryLimit == 30     \* .slice(-30)

\* list.slice(-n)
sliceLast(list, n) ==
    IF Len(list) <= n THEN list ELSE SubSeq(list, Len(list) - n + 1, Len(list))

\* The first 30 kept instead of the last 30.
appendSampleKeepFirst(prev, sample) == slice0(Append(prev, sample), HistoryLimit)

\* The sample put in front instead of at the end.
appendSamplePrepend(prev, sample) == sliceLast(<<sample>> \o prev, HistoryLimit)

\* prev => [...prev, sample].slice(-30)
appendSample(prev, sample) == sliceLast(Append(prev, sample), HistoryLimit)

\* format(new Date(), 'HH:mm:ss'): the clock, read once for each sample, is
\* later at each reading.
Now == Len(samples) + 1

\* a + v on numbers: NaN once an operand is NaN or undefined
AddJs(a, v) ==
    IF "n" \in DOMAIN a /\ v.k = "number" /\ "n" \in DOMAIN v THEN Num(a.n + v.n) ELSE NaN

\* The reducer of totalStats for one block.
totalStatsStep(acc, block, length) ==
    LET gas == BigInt(Get(block, "gasUsed").val)
        sum == BigInt(OrZero(acc.totalGasUsed))
    IN  IF ~gas.ok THEN gas
        ELSE IF ~sum.ok THEN sum
        ELSE Return(
            [totalRecords |-> length,
             \* Math.min(acc.firstBlock || Infinity, block.blockNumber)
             firstBlock |-> IF acc.firstBlock = 0 THEN blockNumberOf(block)
                            ELSE Min(acc.firstBlock, blockNumberOf(block)),
             \* Math.max(acc.lastBlock || 0, block.blockNumber)
             lastBlock |-> IF acc.lastBlock >= blockNumberOf(block) THEN acc.lastBlock
                           ELSE blockNumberOf(block),
             totalTransactions |->
                AddJs(acc.totalTransactions, Get(block, "hyperEVMTxns").val),
             totalCrossLayerCalls |->
                AddJs(acc.totalCrossLayerCalls, Get(block, "crossLayerCalls").val),
             totalGasUsed |-> BigToString(BigAdd(sum.val, gas.val))])

\* The reduction over blocks[lo..hi]: its first half, then its second half
\* from the accumulator the first half left, unless the first half threw.
RECURSIVE totalStatsReduceFrom(_, _, _, _)
totalStatsReduceFrom(acc, blocks, lo, hi) ==
    IF lo > hi THEN Return(acc)
    ELSE IF lo = hi THEN totalStatsStep(acc, blocks[lo], Len(blocks))
    ELSE LET first == totalStatsReduceFrom(acc, blocks, lo, (lo + hi) \div 2)
         IN  IF ~first.ok THEN first
             ELSE totalStatsReduceFrom(first.val, blocks, (lo + hi) \div 2 + 1, hi)

\* recentBlocks.reduce(reducer, acc)
totalStatsReduce(acc, blocks) == totalStatsReduceFrom(acc, blocks, 1, Len(blocks))

\* stats || recentBlocks.reduce(..., {totalRecords: 0, ..., totalGasUsed: '0'})
totalStats(statsHeld, blocksHeld) ==
    IF Truthy(statsHeld) THEN Return(statsHeld)
    ELSE totalStatsReduce(
            [totalRecords |-> 0, firstBlock |-> 0, lastBlock |-> 0,
             totalTransactions |-> Num(0), totalCrossLayerCalls |-> Num(0),
             totalGasUsed |-> DecStr(<<0>>)],
            blocksHeld)

InitFront ==
    /\ db = {}
    /\ res = NoResponse
    /\ statsReq = Idle
    /\ oracle \in OracleAnswers
    /\ hypeInFlight = <<>>
    /\ hypeData = Null
    /\ hypePriceHistory = <<>>
    /\ samples = <<>>
    /\ rowData = Null
    /\ parsedBlocks = NotCalled
    /\ NotMounted
    /\ NoSearch

\* fetchHypeData is called (on mount and by hypeInterval): the request leaves.
HypeFetch ==
    /\ Len(hypeInFlight) < MaxInFlight
    /\ Len(samples) + Len(hypeInFlight) < MaxSamples
    /\ hypeInFlight' = Append(hypeInFlight, [st |-> "sent", overtaken |-> FALSE])
    /\ UNCHANGED <<searchVars, backendVars, normVars, oracle, hypeData, hypePriceHistory, samples, pollVars>>

\* The backend answers a request, or the request fails on its way.
HypeAnswer ==
    /\ \E i \in DOMAIN hypeInFlight :
        /\ hypeInFlight[i].st = "sent"
        /\ \/ hypeInFlight' =
                [hypeInFlight EXCEPT ![i] = [st |-> "answered", overtaken |-> @.overtaken]
                                             @@ hypeTokenDataHandler(oracle)]
           \/ hypeInFlight' =
                [hypeInFlight EXCEPT ![i] = [st |-> "answered", overtaken |-> @.overtaken,
                                             status |-> 0, body |-> "Network Error"]]
    /\ UNCHANGED <<searchVars, backendVars, normVars, oracle, hypeData, hypePriceHistory, samples, pollVars>>

RemoveAt(list, i) == SubSeq(list, 1, i - 1) \o SubSeq(list, i + 1, Len(list))

\* The requests sent before request i noted as overtaken: a request sent after
\* them has brought its sample first.
Overtake(list, i) ==
    [k \in DOMAIN list |-> IF k < i THEN [list[k] EXCEPT !.overtaken = TRUE] ELSE list[k]]

\* fetchHypeData after its await: the state updates, or the catch.
HypeComplete ==
    /\ \E i \in DOMAIN hypeInFlight :
        /\ hypeInFlight[i].st = "answered"
        /\ hypeInFlight' =
                RemoveAt(IF hypeInFlight[i].status = 200
                         THEN Overtake(hypeInFlight, i) ELSE hypeInFlight, i)
        /\ IF hypeInFlight[i].status = 200
           THEN LET sample == [time |-> Now, price |-> hypeInFlight[i].body.hypePrice]
                IN  /\ hypeData' = hypeInFlight[i].body
                    /\ hypePriceHistory' = appendSample(hypePriceHistory, sample)
                    /\ samples' = Append(samples, sample)
           ELSE UNCHANGED <<hypeData, hypePriceHistory, samples>>
    /\ UNCHANGED <<searchVars, backendVars, normVars, oracle, pollVars>>

NextFront ==
    \/ HypeFetch
    \/ HypeAnswer
    \/ HypeComplete

SpecFront == InitFront /\ [][NextFront]_vars

---------------------------------------------------------------------------
(* parseBlockData on its own, over every shape of payload.                 *)

MaxListLen == 2        \* records in a blocks array

RecordPool == {B100, B102, B105a}

RECURSIVE ListsUpTo(_)
ListsUpTo(n) ==
    IF n = 0 THEN {<<>>}
    ELSE LET shorter == ListsUpTo(n - 1)
         IN  shorter \cup {Append(l, b) : l \in {x \in shorter : Len(x) = n - 1},
                                          b \in RecordPool}

\* What a payload can be once decoded.
DecodedPayloads ==
    LET lists == ListsUpTo(MaxListLen)
    IN  {Arr(l) : l \in lists}
        \cup {Obj("blocks" :> Arr(l)) : l \in lists}
        \cup {Obj(("blocks" :> Arr(l)) @@ ("blockNumber" :> Num(999))) : l \in lists}
        \cup {Obj(("blocks" :> v) @@ ("blockNumber" :> Num(103))) :
                v \in {Num(5), Num(0), Null, Obj(<<>>)}}
        \cup {Obj("blocks" :> Num(5)), Obj("blocks" :> Null), Obj("network" :> Num(1)),
              Obj(<<>>), Obj("blockNumber" :> Null), Obj("blockNumber" :> Num(0))}
        \cup RecordPool
        \cup {Null, Num(7), Num(0)}

\* A row's data: a decoded value (or none), or a text, well-formed or not.
Payloads ==
    DecodedPayloads \cup {Undefined}
    \cup {Text([wf |-> TRUE, val |-> v]) : v \in DecodedPayloads}
    \cup {Text([wf |-> FALSE])}

InitNormalize ==
    /\ db = {}
    /\ res = NoResponse
    /\ statsReq = Idle
    /\ oracle = Throw("NETWORK_ERROR")
    /\ hypeInFlight = <<>>
    /\ hypeData = Null
    /\ hypePriceHistory = <<>>
    /\ samples = <<>>
    /\ rowData \in Payloads
    /\ parsedBlocks = NotCalled
    /\ NotMounted
    /\ NoSearch

\* const blocks = parseBlockData(row.data)
Normalize ==
    /\ parsedBlocks = NotCalled
    /\ parsedBlocks' = [op |-> "parseBlockData"] @@ parseBlockData(rowData)
    /\ UNCHANGED <<searchVars, backendVars, priceVars, rowData, pollVars>>

\* The loop goes on to the next row.
NextRow ==
    /\ parsedBlocks # NotCalled
    /\ rowData' \in Payloads
    /\ parsedBlocks' = NotCalled
    /\ UNCHANGED <<searchVars, backendVars, priceVars, pollVars>>

NextNormalize ==
    \/ Normalize
    \/ NextRow

SpecNormalize == InitNormalize /\ [][NextNormalize]_vars

---------------------------------------------------------------------------
(* The dashboard's polling: the effect, its three intervals, the fetches.  *)

MaxTime == 2           \* clock steps of one behaviour

ClockStepMs == 5000    \* a clock step: the shortest of the periods
DataPeriodMs == 10000  \* setInterval(() => {...}, 10000)
HypePeriodMs == 5000   \* setInterval(fetchHypeData, 5000)
HealthPeriodMs == 30000 \* setInterval(checkBackendHealth, 30000)

\* The delay each interval is set with.
Period(timer) ==
    CASE timer = "dataInterval" -> DataPeriodMs
      [] timer = "hypeInterval" -> HypePeriodMs
      [] timer = "healthInterval" -> HealthPeriodMs

\* The functions the callback of each interval calls.
Calls(timer) ==
    CASE timer = "dataInterval" -> {"fetchStreamData", "fetchStats", "fetchCurrentBlock"}
      [] timer = "hypeInterval" -> {"fetchHypeData"}
      [] timer = "healthInterval" -> {"checkBackendHealth"}

\* An interval that waits for the requests of its last run.
intervalDueWhenSettled(timer) ==
    /\ fired[timer] < (clock * ClockStepMs) \div Period(timer)
    /\ \A f \in Calls(timer) : pending[f] = 0

\* setInterval(callback, delay): the callback is due once more for every delay
\* that has passed since the interval was set.
intervalDue(timer) == fired[timer] < (clock * ClockStepMs) \div Period(timer)

\* The axios.get of each function of fs has sent one more request.
Sent(fs) == [f \in Fetches |-> IF f \in fs THEN pending[f] + 1 ELSE pending[f]]

\* The request of f that completes is no longer in flight.
Settled(f) == [pending EXCEPT ![f] = @ - 1]

Message(text) == [k |-> "string", text |-> text]
StreamErrorMessage ==
    Message("Unable to fetch data from server. Make sure the backend is running on port 3001.")
HealthErrorMessage ==
    Message("Backend disconnected. Please check if the server is running.")

\* What axios.get completes with: the body of a 2xx response, or the error of
\* any other status and of a request that got no response.
NetworkError == Throw("Network Error")
StreamResponses ==
    {Return(Arr(<<>>)), Return(Arr(<<B105b, B100>>)), Return(Null), NetworkError}
StatsResponses == {Return(statsHandler(rangeMetadata({}), Return(<<>>)).body), NetworkError}
BlockNumberResponses == {Return(Obj("blockNumber" :> Num(110))), NetworkError}
HealthResponses == {Return(Obj("status" :> Message("ok"))), NetworkError}
\* GET /api/hype-token-data answers with the fallback price: the precompile is
\* out of the backend's reach for the whole behaviour.
HypeTokenData == hypeTokenDataHandler(Throw("NETWORK_ERROR")).body
HypeResponses == {Return(HypeTokenData), NetworkError}

\* Two periods of dataInterval after the mount, in clock steps.
QuietTime == 2 * (DataPeriodMs \div ClockStepMs)

\* The state once the effect has run: the five requests sent, the intervals set.
JustMounted ==
    /\ hypeData = Null
    /\ hypePriceHistory = <<>>
    /\ samples = <<>>
    /\ recentBlocks = <<>>
    /\ stats = Null
    /\ currentBlock = Null
    /\ streamStatus = "disconnected"
    /\ error = Null
    /\ pending = [f \in Fetches |-> 1]
    /\ fired = [t \in Intervals |-> 0]
    /\ clock = 0

\* The state QuietTime after the mount when every request until then was
\* answered in its turn and with success: none is in flight.
QuietLater ==
    LET body == HypeTokenData
    IN  /\ hypeData = body
        /\ hypePriceHistory = [i \in 1..(QuietTime + 1) |-> [time |-> i, price |-> body.hypePrice]]
        /\ samples = hypePriceHistory
        /\ recentBlocks = <<B105b, B100>>
        /\ stats = statsHandler(rangeMetadata({}), Return(<<>>)).body
        /\ currentBlock = Num(110)
        /\ streamStatus = "connected"
        /\ error = Null
        /\ pending = [f \in Fetches |-> 0]
        /\ fired = [t \in Intervals |-> (QuietTime * ClockStepMs) \div Period(t)]
        /\ clock = QuietTime

InitPoll ==
    /\ db = {}
    /\ res = NoResponse
    /\ statsReq = Idle
    /\ oracle = Throw("NETWORK_ERROR")
    /\ hypeInFlight = <<>>
    /\ rowData = Null
    /\ parsedBlocks = NotCalled
    /\ JustMounted \/ QuietLater
    /\ NoSearch

\* Time passes, once the callbacks that were due have run.
TimePasses ==
    /\ clock < MaxTime \/ (QuietTime <= clock /\ clock < QuietTime + MaxTime)
    /\ \A timer \in Intervals : ~intervalDue(timer)
    /\ clock' = clock + 1
    /\ UNCHANGED <<searchVars, backendVars, priceVars, normVars, appVars, pending, fired>>

\* The callback of dataInterval: fetchStreamData(), fetchStats(),
\* fetchCurrentBlock(), each up to its await.
DataIntervalFires ==
    /\ intervalDue("dataInterval")
    /\ fired' = [fired EXCEPT !["dataInterval"] = @ + 1]
    /\ error' = Null
    /\ pending' = Sent(Calls("dataInterval"))
    /\ UNCHANGED <<searchVars, backendVars, priceVars, normVars, recentBlocks, stats, currentBlock,
                   streamStatus, clock>>

\* The callback of hypeInterval: fetchHypeData() up to its await.
HypeIntervalFires ==
    /\ intervalDue("hypeInterval")
    /\ fired' = [fired EXCEPT !["hypeInterval"] = @ + 1]
    /\ pending' = Sent(Calls("hypeInterval"))
    /\ UNCHANGED <<searchVars, backendVars, priceVars, normVars, appVars, clock>>

\* The callback of healthInterval: checkBackendHealth() up to its await.
HealthIntervalFires ==
    /\ intervalDue("healthInterval")
    /\ fired' = [fired EXCEPT !["healthInterval"] = @ + 1]
    /\ pending' = Sent(Calls("healthInterval"))
    /\ UNCHANGED <<searchVars, backendVars, priceVars, normVars, appVars, clock>>

\* fetchStreamData from its await on.
fetchStreamDataEnds(response) ==
    /\ pending["fetchStreamData"] > 0
    /\ pending' = Settled("fetchStreamData")
    /\ IF response.ok
       THEN IF Truthy(response.val) /\ IsArray(response.val)
            THEN /\ recentBlocks' = response.val.items
                 /\ streamStatus' = "connected"
                 /\ error' = error
            ELSE UNCHANGED <<recentBlocks, streamStatus, error>>
       ELSE /\ error' = StreamErrorMessage
            /\ streamStatus' = "disconnected"
            /\ recentBlocks' = recentBlocks
    /\ UNCHANGED <<searchVars, backendVars, priceVars, normVars, stats, currentBlock, fired, clock>>

\* A catch that forgets what was fetched before.
fetchStatsEndsResetting(response) ==
    /\ pending["fetchStats"] > 0
    /\ pending' = Settled("fetchStats")
    /\ stats' = IF response.ok THEN response.val ELSE Null
    /\ UNCHANGED <<searchVars, backendVars, priceVars, normVars, recentBlocks, currentBlock,
                   streamStatus, error, fired, clock>>

\* fetchStats from its await on.
fetchStatsEnds(response) ==
    /\ pending["fetchStats"] > 0
    /\ pending' = Settled("fetchStats")
    /\ stats' = IF response.ok THEN response.val ELSE stats
    /\ UNCHANGED <<searchVars, backendVars, priceVars, normVars, recentBlocks, currentBlock,
                   streamStatus, error, fired, clock>>

\* fetchCurrentBlock from its await on.
fetchCurrentBlockEnds(response) ==
    /\ pending["fetchCurrentBlock"] > 0
    /\ pending' = Settled("fetchCurrentBlock")
    /\ currentBlock' = IF response.ok THEN Get(response.val, "blockNumber").val
                       ELSE currentBlock
    /\ UNCHANGED <<searchVars, backendVars, priceVars, normVars, recentBlocks, stats, streamStatus,
                   error, fired, clock>>

\* fetchHypeData from its await on.
fetchHypeDataEnds(response) ==
    /\ pending["fetchHypeData"] > 0
    /\ pending' = Settled("fetchHypeData")
    /\ IF response.ok
       THEN LET sample == [time |-> Now, price |-> response.val.hypePrice]
            IN  /\ hypeData' = response.val
                /\ hypePriceHistory' = appendSample(hypePriceHistory, sample)
                /\ samples' = Append(samples, sample)
       ELSE UNCHANGED <<hypeData, hypePriceHistory, samples>>
    /\ UNCHANGED <<searchVars, backendVars, normVars, oracle, hypeInFlight, appVars, fired, clock>>

\* checkBackendHealth from its await on.
checkBackendHealthEnds(response) ==
    /\ pending["checkBackendHealth"] > 0
    /\ pending' = Settled("checkBackendHealth")
    /\ IF response.ok
       THEN IF StrictEquals(Get(response.val, "status").val, Message("ok"))
            THEN streamStatus' = "connected" /\ error' = Null
            ELSE UNCHANGED <<streamStatus, error>>
       ELSE streamStatus' = "disconnected" /\ error' = HealthErrorMessage
    /\ UNCHANGED <<searchVars, backendVars, priceVars, normVars, recentBlocks, stats, currentBlock,
                   fired, clock>>

StreamDataArrives == \E response \in StreamResponses : fetchStreamDataEnds(response)
StatsArrive == \E response \in StatsResponses : fetchStatsEnds(response)
CurrentBlockArrives == \E response \in BlockNumberResponses : fetchCurrentBlockEnds(response)
HypeDataArrives == \E response \in HypeResponses : fetchHypeDataEnds(response)
HealthArrives == \E response \in HealthResponses : checkBackendHealthEnds(response)

NextPoll ==
    \/ TimePasses
    \/ DataIntervalFires
    \/ HypeIntervalFires
    \/ HealthIntervalFires
    \/ StreamDataArrives
    \/ StatsArrive
    \/ CurrentBlockArrives
    \/ HypeDataArrives
    \/ HealthArrives

SpecPoll == InitPoll /\ [][NextPoll]_vars

---------------------------------------------------------------------------
(* The block explorer: searchBlock.                                        *)

\* What the user types into the search input.
SearchTexts ==
    {ParamText(<<>>, ""), ParamText(<<105>>, ""), ParamText(<<107>>, ""),
     ParamText(<<>>, "abc")}

\* `${blockNum}`: the digits of a number, "NaN" of NaN.
templateText(blockNum) ==
    IF "nan" \in DOMAIN blockNum THEN ParamText(<<>>, "NaN")
    ELSE ParamText(<<blockNum.n>>, "")

\* The error axios throws: response is the response of a status other than
\* 2xx, undefined when there was none.
AxiosError(response) == [k |-> "AxiosError", response |-> response]

\* What axios.get completes with on a response of the backend.
axiosGet(r) ==
    IF r.status = 200 THEN Return(r.body)
    ELSE Throw(AxiosError(Obj("status" :> Num(r.status))))

\* The table while the searches run: one row.
SearchStore ==
    {[from_block_number |-> 100, to_block_number |-> 109,
      data |-> Arr(<<B100, B101, B105a>>)]}

\* The block numbers parseInt makes of the texts.
SearchNumbers == {parseInt(text) : text \in SearchTexts}

\* What axios.get(`${API_URL}/api/blocks/${blockNum}`) completes with: what the
\* backend answers from the table, or no response at all.
BlockResponsesOf ==
    [blockNum \in SearchNumbers |->
        LET param == templateText(blockNum)
            n == parseInt(param)
        IN  {axiosGet(blockHandler(param, result, chain)) :
                result \in blockRangeQuery(SearchStore, n), chain \in getBlockAnswers(n)}
            \cup {Throw(AxiosError(Undefined))}]

BlockResponses(blockNum) == BlockResponsesOf[blockNum]

\* err.response?.status === 404
isStatus404(err) ==
    /\ err.response.k = "object"
    /\ StrictEquals(Get(err.response, "status").val, Num(404))

\* The dashboard with a listing it has fetched or none yet, the table holding
\* one row, nothing typed.
InitSearch ==
    /\ db = SearchStore
    /\ res = NoResponse
    /\ statsReq = Idle
    /\ oracle = Throw("NETWORK_ERROR")
    /\ hypeInFlight = <<>>
    /\ hypeData = Null
    /\ hypePriceHistory = <<>>
    /\ samples = <<>>
    /\ rowData = Null
    /\ parsedBlocks = NotCalled
    /\ recentBlocks \in {<<>>, <<B105b, B100>>}
    /\ stats = Null
    /\ currentBlock = Null
    /\ streamStatus = "disconnected"
    /\ error = Null
    /\ pending = [f \in Fetches |-> 0]
    /\ fired = [t \in Intervals |-> 0]
    /\ clock = 0
    /\ NoSearch

\* onChange of the input: setBlockSearch(e.target.value)
setBlockSearch ==
    /\ \E text \in SearchTexts \ {blockSearch} : blockSearch' = text
    /\ UNCHANGED <<backendVars, priceVars, normVars, pollVars, searchResult, loading,
                   searching, alerted>>

\* searchBlock, on Enter or on the button, up to its await or to its end.
searchBlock ==
    /\ IF ~Truthy(blockSearch)
       THEN /\ searchResult' = Null
            /\ UNCHANGED <<loading, searching, alerted>>
       ELSE LET blockNum == parseInt(blockSearch)
                found == find(recentBlocks, blockNum)
            IN  IF Truthy(found)
                THEN /\ searchResult' = found
                     /\ loading' = FALSE
                     /\ UNCHANGED <<searching, alerted>>
                ELSE LET free == {i \in 1..MaxSearches : searching[i] = NoRequest}
                     IN  /\ free # {}
                         /\ searching' = [searching EXCEPT ![SetMin(free)] = blockNum]
                         /\ loading' = TRUE
                         /\ UNCHANGED <<searchResult, alerted>>
    /\ UNCHANGED <<backendVars, priceVars, normVars, pollVars, blockSearch>>

\* A finally that runs on success only.
searchBlockResumesNoFinally(i, response) ==
    /\ searching[i] # NoRequest
    /\ searching' = [searching EXCEPT ![i] = NoRequest]
    /\ IF response.ok
       THEN searchResult' = response.val /\ alerted' = alerted /\ loading' = FALSE
       ELSE /\ searchResult' = searchResult
            /\ alerted' = IF isStatus404(response.err) THEN Message("Block not found")
                          ELSE Message("Error searching block")
            /\ loading' = loading
    /\ UNCHANGED <<backendVars, priceVars, normVars, pollVars, blockSearch>>

\* searchBlock from its await on, for the search waiting in i.
searchBlockResumes(i, response) ==
    /\ searching[i] # NoRequest
    /\ searching' = [searching EXCEPT ![i] = NoRequest]
    /\ IF response.ok
       THEN searchResult' = response.val /\ alerted' = alerted
       ELSE /\ searchResult' = searchResult
            /\ alerted' = IF isStatus404(response.err) THEN Message("Block not found")
                          ELSE Message("Error searching block")
    /\ loading' = FALSE
    /\ UNCHANGED <<backendVars, priceVars, normVars, pollVars, blockSearch>>

BlockResponseArrives(i) ==
    /\ searching[i] # NoRequest
    /\ \E response \in BlockResponses(searching[i]) : searchBlockResumes(i, response)

NextSearch ==
    \/ setBlockSearch
    \/ searchBlock
    \/ \E i \in 1..MaxSearches : BlockResponseArrives(i)

\* Every request sent is answered or fails.
SpecSearch ==
    /\ InitSearch
    /\ [][NextSearch]_vars
    /\ \A i \in 1..MaxSearches : WF_vars(BlockResponseArrives(i))

---------------------------------------------------------------------------
(* What the properties below speak of.                                     *)

Range(list) == {list[i] : i \in DOMAIN list}
Count(list, x) == Cardinality({i \in DOMAIN list : list[i] = x})

RECURSIVE SumFrom(_, _, _)
SumFrom(ns, lo, hi) ==
    IF lo > hi THEN 0
    ELSE IF lo = hi THEN ns[lo]
    ELSE SumFrom(ns, lo, (lo + hi) \div 2) + SumFrom(ns, (lo + hi) \div 2 + 1, hi)

SumSeq(ns) == SumFrom(ns, 1, Len(ns))

\* The records normalized from the rows a response read, in row order.
NormalizedRecords == allBlocks(res.rows).val

RecentServed == res.op = "recent" /\ res.completed
StatsServed == res.op = "stats" /\ res.completed

StrictlyDescending(list) ==
    \A i \in 1..(Len(list) - 1) : blockNumberOf(list[i]) > blockNumberOf(list[i + 1])

Descending(list) ==
    \A i \in 1..(Len(list) - 1) : blockNumberOf(list[i]) >= blockNumberOf(list[i + 1])

\* C1: the listing GET /api/blocks/recent returns holds at most one record for
\* a block number, the one of the row processed first, and is strictly
\* descending by block number.
C1_RecentOneRecordPerBlockNumber ==
    RecentServed =>
        /\ res.status = 200
        /\ StrictlyDescending(res.body)
        /\ \A b \in Range(res.body) :
            LET first == CHOOSE i \in DOMAIN NormalizedRecords :
                            /\ blockNumberOf(NormalizedRecords[i]) = blockNumberOf(b)
                            /\ \A j \in 1..(i - 1) :
                                blockNumberOf(NormalizedRecords[j]) # blockNumberOf(b)
            IN  b = NormalizedRecords[first]

\* out is the limit records of all with the highest block numbers, in
\* descending order.
IsTopDescending(out, all, limit) ==
    /\ Descending(out)
    /\ Len(out) = Min(limit, Len(all))
    /\ \A x \in Range(out) : Count(out, x) <= Count(all, x)
    /\ \A x \in Range(all) :
        \/ \A y \in Range(out) : blockNumberOf(x) <= blockNumberOf(y)
        \/ Count(out, x) >= Count(all, x)

MaxLimit == 3

\* C2: for any rows and any limit, mergeRecent returns min(limit, number of
\* normalized records) records in descending order of block number, and no
\* record left out has a higher block number than one returned.
C2_MergeRecentTopDescending ==
    RecentServed =>
        /\ res.status = 200
        /\ IsTopDescending(res.body, NormalizedRecords, RecentLimit)
        /\ \A limit \in 0..MaxLimit :
            /\ mergeRecent(res.rows, limit).ok
            /\ IsTopDescending(mergeRecent(res.rows, limit).val, NormalizedRecords, limit)

\* A listing cut to its limit: more records were normalized than it holds, and
\* they were not in order.
C2_Witness ==
    /\ RecentServed
    /\ Len(NormalizedRecords) > RecentLimit
    /\ Len(res.body) = RecentLimit
    /\ ~Descending(NormalizedRecords)

\* The list the shape of a payload stands for: the blocks array of an object
\* that has one, else a bare array itself, else the object alone when it has
\* a blockNumber field, else nothing; a text stands for what it decodes to.
DecodedPayload(payload) ==
    IF payload.k = "string"
    THEN (IF "doc" \in DOMAIN payload /\ payload.doc.wf THEN payload.doc.val ELSE Undefined)
    ELSE payload

HasField(v, name) == v.k = "object" /\ name \in DOMAIN v.f

ListOfShape(payload) ==
    LET d == DecodedPayload(payload)
    IN  IF HasField(d, "blocks") /\ d.f.blocks.k = "array" THEN d.f.blocks.items
        ELSE IF d.k = "array" THEN d.items
        ELSE IF HasField(d, "blockNumber") THEN <<d>>
        ELSE <<>>

\* C3: parseBlockData returns the blocks array of an object that has one (also
\* when the object has a blockNumber), else a bare array unchanged, else the
\* one-element list of an object with a blockNumber, else the empty list.
C3_NormalizeDispatch ==
    parsedBlocks # NotCalled => parsedBlocks.ok /\ parsedBlocks.val = ListOfShape(rowData)

\* The blocks array of an object that also has a blockNumber has been returned.
C3_Witness ==
    /\ parsedBlocks # NotCalled
    /\ HasField(rowData, "blocks")
    /\ HasField(rowData, "blockNumber")
    /\ rowData.f.blocks = Arr(<<B102, B100>>)
    /\ parsedBlocks.val = <<B102, B100>>

IsMalformedText(v) == v.k = "string" /\ "doc" \in DOMAIN v /\ ~v.doc.wf

\* C4: parseBlockData never throws to its caller, whatever the payload, and
\* returns the empty list for a text that fails to decode.
C4_NormalizeNeverThrows ==
    parsedBlocks # NotCalled =>
        /\ parsedBlocks.ok
        /\ IsMalformedText(rowData) => parsedBlocks.val = <<>>

\* parseBlockData has returned from a text that does not decode.
C4_Witness ==
    /\ parsedBlocks # NotCalled
    /\ IsMalformedText(rowData)
    /\ parsedBlocks.ok
    /\ parsedBlocks.val = <<>>

\* A record the fold takes: it has a transaction count above zero.
IsActive(b) == HasField(b, "hyperEVMTxns") /\ b.f.hyperEVMTxns.n > 0

FieldOrZero(b, name) == IF HasField(b, name) THEN b.f[name].n ELSE 0

SumActive(list, name) ==
    SumSeq([i \in 1..Len(list) |->
                IF IsActive(list[i]) THEN FieldOrZero(list[i], name) ELSE 0])

CountActive(list) == Cardinality({i \in 1..Len(list) : IsActive(list[i])})

\* The gasUsed strings of the records the fold takes, in order.
ActiveGas(list) ==
    LET taken == SelectSeq(list, LAMBDA b : IsActive(b) /\ HasField(b, "gasUsed"))
    IN  [i \in 1..Len(taken) |-> taken[i].f.gasUsed.digits]

\* The sum of decimal numerals, column by column from the units: the numeral
\* of the mathematical sum.
DigitAt(numeral, pos) ==
    IF pos <= Len(numeral) THEN numeral[Len(numeral) - pos + 1] ELSE 0

RECURSIVE SumColumns(_, _, _, _)
SumColumns(numerals, pos, width, carry) ==
    IF pos > width THEN NatDigits(carry)
    ELSE LET t == carry + SumSeq([i \in DOMAIN numerals |-> DigitAt(numerals[i], pos)])
         IN  <<t % 10>> \o SumColumns(numerals, pos + 1, width, t \div 10)

ExactSum(numerals) ==
    LET width == IF numerals = <<>> THEN 0
                 ELSE SetMax({Len(numerals[i]) : i \in DOMAIN numerals})
        sum == SumColumns(numerals, 1, width, 0)
    IN  IF sum = <<>> THEN <<0>> ELSE Reverse(sum)

\* C5: GET /api/stats folds exactly the records with hyperEVMTxns > 0: the
\* four totals are the sums of their fields, processedBlocks is their number,
\* and a record with no or zero hyperEVMTxns adds to none of them.
C5_AggregateFoldsActiveRecords ==
    StatsServed =>
        /\ res.status = 200
        /\ res.body.totalTransactions = SumActive(NormalizedRecords, "hyperEVMTxns")
        /\ res.body.totalCrossLayerCalls = SumActive(NormalizedRecords, "crossLayerCalls")
        /\ res.body.totalHyperCoreActions = SumActive(NormalizedRecords, "hyperCoreActions")
        /\ res.body.totalGasUsed = DecStr(ExactSum(ActiveGas(NormalizedRecords)))
        /\ res.body.processedBlocks = CountActive(NormalizedRecords)

\* Records without transactions that hold calls, actions and gas were read
\* beside records the fold takes.
C5_Witness ==
    /\ StatsServed
    /\ res.body.processedBlocks > 0
    /\ \E b \in Range(NormalizedRecords) :
        /\ HasField(b, "hyperEVMTxns") /\ b.f.hyperEVMTxns.n = 0
        /\ FieldOrZero(b, "crossLayerCalls") > 0 /\ HasField(b, "gasUsed")
    /\ \E b \in Range(NormalizedRecords) :
        /\ ~HasField(b, "hyperEVMTxns")
        /\ FieldOrZero(b, "crossLayerCalls") > 0 /\ HasField(b, "gasUsed")

\* C6: over no rows, and whenever no transaction is counted, GET /api/stats
\* answers successfully with totalTransactions 0, totalGasUsed "0",
\* processedBlocks 0 and crossLayerPercentage "0".
C6_AggregateOfNothing ==
    StatsServed /\ (res.rows = <<>> \/ CountActive(NormalizedRecords) = 0) =>
        /\ res.status = 200
        /\ res.body.totalTransactions = 0
        /\ res.body.totalGasUsed = DecStr(<<0>>)
        /\ res.body.processedBlocks = 0
        /\ res.body.crossLayerPercentage = DecStr(<<0>>)

\* The statistics of the empty table have been served.
C6_Witness ==
    /\ StatsServed
    /\ res.rows = <<>>
    /\ res.counted = {}
    /\ res.body.crossLayerPercentage = DecStr(<<0>>)

\* C7: totalRecords, firstBlock and lastBlock are the count, the least
\* from_block_number and the greatest to_block_number of the rows the metadata
\* query saw, whatever their payloads hold and whatever the fold takes.
C7_RangeMetadataApartFromFold ==
    StatsServed =>
        /\ res.body.totalRecords = Num(Cardinality(res.counted))
        /\ res.counted # {} =>
            /\ res.body.firstBlock = Num(SetMin({r.from_block_number : r \in res.counted}))
            /\ res.body.lastBlock = Num(SetMax({r.to_block_number : r \in res.counted}))

\* Rows were counted of which the fold took no record, one of them malformed.
C7_Witness ==
    /\ StatsServed
    /\ Cardinality(res.counted) = 2
    /\ \E r \in res.counted : r.data = Text([wf |-> FALSE])
    /\ res.body.processedBlocks = 0
    /\ res.body.totalRecords = Num(2)
    /\ res.body.firstBlock = Num(100)
    /\ res.body.lastBlock = Num(114)

TwoTo65Numeral == <<3,6,8,9,3,4,8,8,1,4,7,4,1,9,1,0,3,2,3,2>>

\* C8: totalGasUsed is the exact sum of the gasUsed of the folded records at
\* any width, in GET /api/stats and in the dashboard's totalStats: 2^64 and
\* 2^64 give 2^65, and 2^128 is kept digit for digit.
C8_GasSumExact ==
    /\ StatsServed =>
        LET gas == ActiveGas(NormalizedRecords)
        IN  /\ res.body.totalGasUsed = DecStr(ExactSum(gas))
            /\ gas = <<GasTwoTo64.digits, GasTwoTo64.digits>> =>
                    res.body.totalGasUsed = DecStr(TwoTo65Numeral)
            /\ gas = <<GasTwoTo128.digits>> => res.body.totalGasUsed = GasTwoTo128
    /\ RecentServed /\ (\A b \in Range(res.body) : HasField(b, "gasUsed")) =>
        /\ totalStats(Null, res.body).ok
        /\ totalStats(Null, res.body).val.totalGasUsed =
                DecStr(ExactSum([i \in DOMAIN res.body |-> res.body[i].f.gasUsed.digits]))

\* Two records of 2^64 gas each have been summed to 2^65.
C8_Witness ==
    /\ StatsServed
    /\ ActiveGas(NormalizedRecords) = <<GasTwoTo64.digits, GasTwoTo64.digits>>
    /\ res.body.totalGasUsed = DecStr(TwoTo65Numeral)


FallbackPrice == Price(Reverse(<<4,8,0,0,0,0,0,0>>))
MarketCapAtFallback == Price(Reverse(<<1,6,0,2,8,5,5,2,6,4,0,0,0,0,0,0,0>>))

\* The precompile call failed: it was rejected, or its result does not decode,
\* or its value is too large for toNumber().
OracleFailed(call) ==
    \/ ~call.ok
    \/ "uint256" \notin DOMAIN call.val
    \/ ~BigLess(Reverse(StripZeros(call.val.uint256)), TwoTo53)

\* C9: getHypePrice never throws: whenever the precompile call fails it
\* returns the fallback price 48, and GET /api/hype-token-data still answers
\* 200 with marketCap = circulatingSupply * 48.
C9_PriceFallbackNeverThrows ==
    /\ \A call \in OracleAnswers :
        /\ getHypePrice(call).ok
        /\ OracleFailed(call) => getHypePrice(call).val = FallbackPrice
    /\ res.op = "hype" =>
        /\ res.status = 200
        /\ OracleFailed(res.call) =>
            /\ res.body.hypePrice = FallbackPrice
            /\ res.body.circulatingSupply = CirculatingSupply
            /\ res.body.marketCap = MarketCapAtFallback

\* The price was asked while the precompile returned a value beyond 2^53.
C9_Witness ==
    /\ res.op = "hype"
    /\ res.call.ok
    /\ "uint256" \in DOMAIN res.call.val
    /\ res.call.val.uint256 = GasTwoTo64.digits
    /\ res.body.hypePrice = FallbackPrice


\* C10: the price history holds the min(30, n) most recent of the n samples
\* appended, in the order they were appended.
C10_HistoryIsLast30 ==
    /\ Len(hypePriceHistory) = Min(HistoryLimit, Len(samples))
    /\ hypePriceHistory = sliceLast(samples, Len(hypePriceHistory))
    /\ \A i \in DOMAIN hypePriceHistory :
        hypePriceHistory[i] = samples[Len(samples) - Len(hypePriceHistory) + i]

\* Two more samples than the window holds have been appended: the two oldest
\* are gone.
C10_Witness ==
    /\ Len(samples) = HistoryLimit + 2
    /\ Len(hypePriceHistory) = HistoryLimit
    /\ hypePriceHistory[1] = samples[3]
    /\ hypePriceHistory[HistoryLimit] = samples[HistoryLimit + 2]

\* The requests of before of which after is what is left once one of them, an
\* answered one, is over.
FetchKey(e) == <<e.st, IF "status" \in DOMAIN e THEN e.status ELSE -1>>

CompletedFetches(before, after) ==
    {i \in DOMAIN before :
        /\ before[i].st = "answered"
        /\ [k \in DOMAIN after |-> FetchKey(after[k])]
            = RemoveAt([k \in DOMAIN before |-> FetchKey(before[k])], i)}

\* C11: with price fetches overlapping, each fetch that completes with success
\* appends exactly one sample, at the end of the window and in one step with
\* the cut to 30, so the window holds the samples in the order their fetches
\* completed, none twice; a fetch being sent, answered or failing leaves the
\* window as it is.
C11_CompletionsAppendInOrder ==
    /\ [](\A i, j \in DOMAIN hypePriceHistory :
            i < j => hypePriceHistory[i].time < hypePriceHistory[j].time)
    /\ [][LET done == CompletedFetches(hypeInFlight, hypeInFlight')
          IN  IF \E i \in done : hypeInFlight[i].status = 200
              THEN \E i \in done :
                    hypePriceHistory' =
                        sliceLast(Append(hypePriceHistory,
                                         [time |-> Now,
                                          price |-> hypeInFlight[i].body.hypePrice]),
                                  HistoryLimit)
              ELSE hypePriceHistory' = hypePriceHistory]_vars

\* Two samples are in the window and a fetch sent before the fetch of one of
\* them is still in flight, answered with a sample of its own to add.
C11_Witness ==
    /\ Len(hypePriceHistory) >= 2
    /\ \E i \in DOMAIN hypeInFlight :
        /\ hypeInFlight[i].overtaken
        /\ hypeInFlight[i].st = "answered"
        /\ hypeInFlight[i].status = 200

LookupServed == res.op = "block"

\* The block number a lookup asked for is a number.
LookupNumeric == LookupServed /\ ~("nan" \in DOMAIN parseInt(res.blockNumber))

\* The records numbered n in the rows of the table whose range holds n.
StoredRecords(rows, n) ==
    UNION {{b \in Range(parseBlockData(r.data).val) : blockNumberOf(b) = n} :
            r \in covering(rows, n)}

\* The chain holds the block a lookup asked for.
ChainHolds == res.chain.ok /\ res.chain.val # Null

\* body is the minimal record of the chain block b.
IsMinimalRecord(body, b) ==
    /\ body.k = "object"
    /\ body.f.blockNumber = Num(b.number)
    /\ body.f.timestamp = Num(b.timestamp)
    /\ body.f.hyperEVMTxns = Num(b.transactions)
    /\ body.f.gasUsed = BigToString(b.gasUsed)
    /\ body.f.hyperCoreActions = Num(0)
    /\ body.f.crossLayerCalls = Num(0)

\* C13: a lookup of block n that the store answers returns a stored record
\* numbered n when a row whose range holds n has one; otherwise, no row
\* holding n in its range or the row having no such record, it asks the chain
\* for block n, returns the minimal record of the block the chain gives, and
\* says not found only when the chain gives none.
C13_LookupFallsBackToChain ==
    LookupNumeric /\ res.result.ok =>
        LET n == parseInt(res.blockNumber).n
        IN  IF StoredRecords(res.stored, n) # {}
            THEN res.status = 200 /\ res.body \in StoredRecords(res.stored, n)
            ELSE /\ res.calls = <<"pool.query", "provider.getBlock">>
                 /\ ChainHolds =>
                        res.status = 200 /\ IsMinimalRecord(res.body, res.chain.val)
                 /\ res.status = 404 => ~ChainHolds

\* C14: a lookup whose block number is not a number is refused as invalid
\* input, and neither the store nor the chain is called for it.
C14_InvalidInputRejectedFirst ==
    LookupServed /\ ~LookupNumeric =>
        res.calls = <<>> /\ res.status = 400

\* C15: a lookup says not found only when neither the store nor the chain has
\* the block; a failure of the store, or of the chain read it fell back to, is
\* answered as service unavailable.
C15_NotFoundApartFromFailure ==
    LookupNumeric =>
        /\ res.status = 404 =>
            /\ res.result.ok
            /\ StoredRecords(res.stored, parseInt(res.blockNumber).n) = {}
            /\ res.chain = Return(Null)
        /\ (~res.result.ok \/ (Len(res.calls) = 2 /\ ~res.chain.ok)) =>
                res.status \in {500, 503}

\* C16: the summary the dashboard derives from the listing it holds has the
\* totalTransactions, totalCrossLayerCalls and totalGasUsed that the fold of
\* the aggregate gives over the same records.
C16_FallbackSameFold ==
    RecentServed =>
        LET aggregate == foldBlocks(zeroTotals, res.body)
            fallback == totalStats(Null, res.body)
        IN  aggregate.ok =>
                /\ fallback.ok
                /\ fallback.val.totalTransactions = Num(aggregate.val.totalTransactions)
                /\ fallback.val.totalCrossLayerCalls = Num(aggregate.val.totalCrossLayerCalls)
                /\ fallback.val.totalGasUsed = BigToString(aggregate.val.totalGasUsed)

\* The records of a list that have the block number v, in the order of the list.
SameNumber(list, v) == SelectSeq(list, LAMBDA b : blockNumberOf(b) = v)

IsPrefix(a, b) == Len(a) <= Len(b) /\ a = SubSeq(b, 1, Len(a))

\* C17: the sort of the listing keeps the source order among records of one
\* block number (rows in the order processed, a payload's records in its
\* order), and it does so before the cut: whatever the limit, the records of a
\* block number that are kept are the first ones of the source.
C17_SortStableBeforeCut ==
    RecentServed =>
        LET all == NormalizedRecords
            numbers == {blockNumberOf(all[i]) : i \in DOMAIN all}
            source == [v \in numbers |-> SameNumber(all, v)]
            sorted == mergeRecent(res.rows, Len(all)).val
        IN  /\ \A v \in numbers : SameNumber(sorted, v) = source[v]
            /\ \A v \in numbers : IsPrefix(SameNumber(res.body, v), source[v])
            /\ \A limit \in 0..MaxLimit : \A v \in numbers :
                    IsPrefix(SameNumber(slice0(sorted, limit), v), source[v])

\* Two different records of one block number from different rows, and a limit
\* that falls between them.
C17_Witness ==
    /\ RecentServed
    /\ Len(res.rows) >= 2
    /\ \E limit \in 1..MaxLimit :
        /\ limit < Len(res.body)
        /\ blockNumberOf(res.body[limit]) = blockNumberOf(res.body[limit + 1])
        /\ res.body[limit] # res.body[limit + 1]
        /\ res.body[limit] \in Range(parseBlockData(res.rows[1].data).val)
        /\ res.body[limit + 1] \notin Range(parseBlockData(res.rows[1].data).val)

\* A decoded payload of none of the shapes: no blocks array, not an array, no
\* blockNumber.
IsUnrecognized(d) ==
    /\ ~(HasField(d, "blocks") /\ d.f.blocks.k = "array")
    /\ d.k # "array"
    /\ ~HasField(d, "blockNumber")

\* A payload that does not decode, or decodes to none of the shapes.
IsMalformed(payload) ==
    IsMalformedText(payload) \/ IsUnrecognized(DecodedPayload(payload))

\* The rows without those of a malformed payload.
WellFormedRows(rows) == SelectSeq(rows, LAMBDA r : ~IsMalformed(r.data))

\* C18: a row whose payload is malformed does not abort a query over several
\* rows: the listing and the aggregate the store's rows give are those of the
\* rows without the malformed ones, and the request succeeds.
C18_MalformedRowSkipped ==
    /\ RecentServed =>
            /\ res.status = 200
            /\ LET clean == mergeRecent(WellFormedRows(res.rows), RecentLimit)
               IN  clean.ok /\ res.body = clean.val
    /\ StatsServed =>
            /\ res.status = 200
            /\ LET clean == foldRows(zeroTotals, WellFormedRows(res.rows))
               IN  /\ clean.ok
                   /\ res.body.totalTransactions = clean.val.totalTransactions
                   /\ res.body.totalCrossLayerCalls = clean.val.totalCrossLayerCalls
                   /\ res.body.totalHyperCoreActions = clean.val.totalHyperCoreActions
                   /\ res.body.totalGasUsed = BigToString(clean.val.totalGasUsed)

\* An aggregate served over a row that does not decode and a row with active
\* records.
C18_Witness ==
    /\ StatsServed
    /\ Len(res.rows) >= 2
    /\ \E r \in Range(res.rows) : IsMalformedText(r.data)
    /\ res.status = 200
    /\ res.body.totalTransactions > 0

\* The periods of an interval that have passed since the mount.
PeriodsElapsed(timer) == (clock * ClockStepMs) \div Period(timer)

\* C12: the three intervals are independent of one another and of the
\* requests in flight: a callback whose period has passed can run whatever is
\* in flight or has failed, so none is ever more than the run being
\* dispatched behind, and a run sends one more request of each of its own
\* fetches, touching no other interval and no request of another kind.
C12_TimersIndependent ==
    /\ [](\A timer \in Intervals : fired[timer] + 1 >= PeriodsElapsed(timer))
    /\ [](fired["dataInterval"] < PeriodsElapsed("dataInterval") => ENABLED DataIntervalFires)
    /\ [](fired["hypeInterval"] < PeriodsElapsed("hypeInterval") => ENABLED HypeIntervalFires)
    /\ [](fired["healthInterval"] < PeriodsElapsed("healthInterval")
            => ENABLED HealthIntervalFires)
    /\ [][\A timer \in Intervals :
            fired'[timer] # fired[timer] =>
                /\ fired' = [fired EXCEPT ![timer] = @ + 1]
                /\ \A f \in Fetches :
                    pending'[f] = pending[f] + (IF f \in Calls(timer) THEN 1 ELSE 0)]_vars

\* No price request since the mount has completed with success and three are in
\* flight; dataInterval has run all the same, and two listing requests are in
\* flight.
C12_Witness ==
    /\ hypeData = Null
    /\ pending["fetchHypeData"] >= 3
    /\ fired["dataInterval"] >= 1
    /\ pending["fetchStreamData"] >= 2

\* A request of fetch f ends in failure.
FetchFails(f) ==
    CASE f = "fetchStreamData" -> \E r \in StreamResponses : ~r.ok /\ fetchStreamDataEnds(r)
      [] f = "fetchStats" -> \E r \in StatsResponses : ~r.ok /\ fetchStatsEnds(r)
      [] f = "fetchCurrentBlock" ->
            \E r \in BlockNumberResponses : ~r.ok /\ fetchCurrentBlockEnds(r)
      [] f = "fetchHypeData" -> \E r \in HypeResponses : ~r.ok /\ fetchHypeDataEnds(r)
      [] f = "checkBackendHealth" -> \E r \in HealthResponses : ~r.ok /\ checkBackendHealthEnds(r)

\* The end of the time the model covers.
TimeIsUp == ~(clock < MaxTime \/ (QuietTime <= clock /\ clock < QuietTime + MaxTime))

\* C19: no failure stops the refresh or undoes what was fetched: whatever has
\* failed, time goes on and the callbacks that are due run; a request that
\* fails leaves the intervals, the requests of the other fetches and every
\* resource fetched before as they were; a request that succeeds puts its
\* response into the state of its resource.
C19_FailureLeavesRefreshRunning ==
    /\ [](TimeIsUp \/ ENABLED (TimePasses \/ DataIntervalFires \/ HypeIntervalFires
                                 \/ HealthIntervalFires))
    /\ [][\A f \in Fetches :
            FetchFails(f) =>
                /\ UNCHANGED <<recentBlocks, stats, currentBlock, hypeData,
                               hypePriceHistory, fired, clock>>
                /\ \A g \in Fetches \ {f} : pending'[g] = pending[g]]_vars
    /\ [][/\ \A r \in StreamResponses :
                r.ok /\ r.val.k = "array" /\ fetchStreamDataEnds(r) =>
                    recentBlocks' = r.val.items /\ streamStatus' = "connected"
          /\ \A r \in StatsResponses : r.ok /\ fetchStatsEnds(r) => stats' = r.val
          /\ \A r \in BlockNumberResponses :
                r.ok /\ fetchCurrentBlockEnds(r) => currentBlock' = r.val.f.blockNumber
          /\ \A r \in HypeResponses :
                r.ok /\ fetchHypeDataEnds(r) =>
                    /\ hypeData' = r.val
                    /\ Len(hypePriceHistory') > 0
                    /\ hypePriceHistory'[Len(hypePriceHistory')].price = r.val.hypePrice
          /\ \A r \in HealthResponses :
                r.ok /\ checkBackendHealthEnds(r) =>
                    streamStatus' = "connected" /\ error' = Null]_vars

\* After dataInterval has run, a listing request has failed and a later one
\* has put its records into recentBlocks; both stats requests have failed;
\* the price requests of the mount and of two runs of hypeInterval have ended.
C19_Witness ==
    /\ fired["dataInterval"] >= 1
    /\ fired["hypeInterval"] >= 2
    /\ error = StreamErrorMessage
    /\ streamStatus = "connected"
    /\ recentBlocks # <<>>
    /\ stats = Null
    /\ pending["fetchStats"] = 0
    /\ pending["fetchHypeData"] = 0
    /\ hypeData # Null

\* C20: whenever the dashboard shows the stream as connected it shows no error
\* message, however the listing fetches and liveness checks in flight
\* complete.
C20_ConnectedShowsNoError ==
    streamStatus = "connected" => error = Null

\* The recent list holds a record of this block number.
InRecent(blockNum) ==
    /\ ~("nan" \in DOMAIN blockNum)
    /\ \E k \in DOMAIN recentBlocks : blockNumberOf(recentBlocks[k]) = blockNum.n

====
